---- MODULE Spec2Model ----
(***************************************************************************)
(* Gold/Silver dashboard server (server.js): the in-memory caches, the    *)
(* rolling price history, the refresh routines and the advice engine.     *)
(*                                                                         *)
(* Numbers are kept exact by scaling: prices are in EUR cents, percent    *)
(* values (changePercent24h) in hundredths of a percent, instants in      *)
(* milliseconds on the Date.now() clock.  A quotient the code compares    *)
(* with a threshold (weeklyChange, the Au/Ag ratio) is kept as a fraction *)
(* num/den with den > 0 and compared by cross-multiplication.             *)
(***************************************************************************)
EXTENDS Integers, Sequences, FiniteSets, Bags, TLC

VARIABLES
    GOLD_API_KEY,   \* process.env.GOLD_API_KEY is set (fixed for the process)
    NEWS_API_KEY,   \* process.env.NEWS_API_KEY is set (fixed for the process)
    now,            \* the clock read by Date.now() / new Date()
    ticks,          \* how many times the clock has advanced
    priceCache,     \* { gold, silver, lastUpdate }
    newsCache,      \* { gold, silver, lastUpdate }
    priceHistory,   \* { gold: [...], silver: [...] }
    cryptoCache,    \* { top10, prices, lastUpdate }
    tasks,          \* bag of the async invocations in flight
    timers,         \* next due instant of each setInterval timer
    requests,       \* how many requests and timer callbacks have started
    res             \* what the last step sent or returned, if anything

vars == <<GOLD_API_KEY, NEWS_API_KEY, now, ticks, priceCache, newsCache,
          priceHistory, cryptoCache, tasks, timers, requests, res>>

Metals == {"gold", "silver"}

----------------------------------------------------------------------------
(* JavaScript values *)

Null == [t |-> "null"]
Undefined == [t |-> "undefined"]
NaN == [t |-> "NaN"]
Num(n) == [t |-> "number", v |-> n]
IsNum(x) == x.t = "number"

\* a quotient a / b of two JS values: NaN unless both are numbers
Div(a, b) ==
    IF IsNum(a) /\ IsNum(b) THEN [t |-> "fraction", num |-> a.v, den |-> b.v]
    ELSE NaN

\* q < k and q > k for a quotient q and an integer k; false for NaN
Less(q, k) == q.t = "fraction" /\ q.num < k * q.den
Greater(q, k) == q.t = "fraction" /\ q.num > k * q.den

\* JS truthiness of a price field
Truthy(x) == IsNum(x) /\ x.v # 0

Min(a, b) == IF a < b THEN a ELSE b
Abs(a) == IF a < 0 THEN -a ELSE a

\* new Date().toISOString() and new Date(iso).getTime(): millisecond precision
toISOString(ms) == [t |-> "iso", ms |-> ms]
getTime(iso) == iso.ms

\* one percent, in the unit of changePercent24h
PCT == 100

\* a PriceQuote (pricePerGram, change24h and currency are never read back)
Quote(price, chp) == [t |-> "quote", price |-> price, changePercent24h |-> chp]

----------------------------------------------------------------------------
(* calculateAdvice *)

InsufficientAdvice ==
    [t |-> "return", advice |-> "HOLD", confidence |-> 50,
     reasons |-> <<"Insufficient data for analysis">>]

TypeError == [t |-> "throw", error |-> "TypeError"]

\* if (!prices || history.length < 2)
insufficientDataLoose(prices, history) == prices = Null \/ Len(history) < 1
insufficientData(prices, history) == prices = Null \/ Len(history) < 2

\* 1. Short-term trend (24h change); undefined.toFixed throws in the last branch
shortTermTrendLoose(prices) ==
    LET chp == prices.changePercent24h IN
    IF chp = Null THEN [score |-> 0, reasons |-> <<>>, threw |-> FALSE]
    ELSE IF IsNum(chp) /\ chp.v <= -2 * PCT
    THEN [score |-> 2, reasons |-> <<"24h: (potential buy opportunity)">>, threw |-> FALSE]
    ELSE IF IsNum(chp) /\ chp.v >= 2 * PCT
    THEN [score |-> -1, reasons |-> <<"24h: (consider taking profits)">>, threw |-> FALSE]
    ELSE IF IsNum(chp)
    THEN [score |-> 0, reasons |-> <<"24h: (stable)">>, threw |-> FALSE]
    ELSE [score |-> 0, reasons |-> <<>>, threw |-> TRUE]

shortTermTrend(prices) ==
    LET chp == prices.changePercent24h IN
    IF chp = Null THEN [score |-> 0, reasons |-> <<>>, threw |-> FALSE]
    ELSE IF IsNum(chp) /\ chp.v < -2 * PCT
    THEN [score |-> 2, reasons |-> <<"24h: (potential buy opportunity)">>, threw |-> FALSE]
    ELSE IF IsNum(chp) /\ chp.v > 2 * PCT
    THEN [score |-> -1, reasons |-> <<"24h: (consider taking profits)">>, threw |-> FALSE]
    ELSE IF IsNum(chp)
    THEN [score |-> 0, reasons |-> <<"24h: (stable)">>, threw |-> FALSE]
    ELSE [score |-> 0, reasons |-> <<>>, threw |-> TRUE]

\* ((newest - oldest) / oldest) * 100 over the retained history
weeklyChangeAdjacent(history) ==
    LET oldest == history[Len(history) - 1].price
        newest == history[Len(history)].price
    IN  IF IsNum(oldest) /\ IsNum(newest)
        THEN Div(Num((newest.v - oldest.v) * 100), oldest)
        ELSE NaN

weeklyChange(history) ==
    LET oldest == history[1].price
        newest == history[Len(history)].price
    IN  IF IsNum(oldest) /\ IsNum(newest)
        THEN Div(Num((newest.v - oldest.v) * 100), oldest)
        ELSE NaN

\* 2. Weekly trend (if enough history)
weeklyTrendSilent(history) ==
    IF Len(history) >= 2
    THEN IF Less(weeklyChange(history), -5)
         THEN [score |-> 2, reasons |-> <<"Week trend: (accumulation zone)">>]
         ELSE IF Greater(weeklyChange(history), 5)
         THEN [score |-> -1, reasons |-> <<"Week trend: (extended rally)">>]
         ELSE [score |-> 0, reasons |-> <<>>]
    ELSE [score |-> 0, reasons |-> <<>>]

weeklyTrend(history) ==
    IF Len(history) >= 2
    THEN IF Less(weeklyChange(history), -5)
         THEN [score |-> 2, reasons |-> <<"Week trend: (accumulation zone)">>]
         ELSE IF Greater(weeklyChange(history), 5)
         THEN [score |-> -1, reasons |-> <<"Week trend: (extended rally)">>]
         ELSE [score |-> 0, reasons |-> <<"Week trend: (consolidating)">>]
    ELSE [score |-> 0, reasons |-> <<>>]

\* 3. Gold/Silver ratio (for silver only)
goldSilverRatioAnyMetal(metal) ==
    IF priceCache.gold # Null /\ Truthy(priceCache.gold.price)
    THEN LET ratio == Div(priceCache.gold.price, priceCache.silver.price) IN
         IF Greater(ratio, 85)
         THEN [score |-> 1, reasons |-> <<"Au/Ag ratio: (silver undervalued historically)">>]
         ELSE IF Less(ratio, 70)
         THEN [score |-> -1, reasons |-> <<"Au/Ag ratio: (silver relatively expensive)">>]
         ELSE [score |-> 0, reasons |-> <<"Au/Ag ratio: (normal range)">>]
    ELSE [score |-> 0, reasons |-> <<>>]

goldSilverRatio(metal) ==
    IF metal = "silver" /\ priceCache.gold # Null /\ Truthy(priceCache.gold.price)
    THEN LET ratio == Div(priceCache.gold.price, priceCache.silver.price) IN
         IF Greater(ratio, 85)
         THEN [score |-> 1, reasons |-> <<"Au/Ag ratio: (silver undervalued historically)">>]
         ELSE IF Less(ratio, 70)
         THEN [score |-> -1, reasons |-> <<"Au/Ag ratio: (silver relatively expensive)">>]
         ELSE [score |-> 0, reasons |-> <<"Au/Ag ratio: (normal range)">>]
    ELSE [score |-> 0, reasons |-> <<>>]

\* the local variables score and reasons once rules 1-4 have run
scoring(metal) ==
    LET s1 == shortTermTrend(priceCache[metal])
        s2 == weeklyTrend(priceHistory[metal])
        s3 == goldSilverRatio(metal)
    IN  [score |-> s1.score + s2.score + s3.score,
         reasons |-> s1.reasons \o s2.reasons \o s3.reasons
                     \o <<"Global uncertainty: Precious metals as safe haven">>,
         threw |-> s1.threw]

\* Determine advice
determineAdviceSellAtOne(score) ==
    IF score >= 2
    THEN [advice |-> "BUY", confidence |-> Min(80, 50 + score * 10)]
    ELSE IF score <= -1
    THEN [advice |-> "SELL", confidence |-> Min(80, 50 + Abs(score) * 10)]
    ELSE [advice |-> "HOLD", confidence |-> 60]

determineAdviceUncapped(score) ==
    IF score >= 2
    THEN [advice |-> "BUY", confidence |-> 50 + score * 10]
    ELSE IF score <= -2
    THEN [advice |-> "SELL", confidence |-> 50 + Abs(score) * 10]
    ELSE [advice |-> "HOLD", confidence |-> 60]

determineAdvice(score) ==
    IF score >= 2
    THEN [advice |-> "BUY", confidence |-> Min(80, 50 + score * 10)]
    ELSE IF score <= -2
    THEN [advice |-> "SELL", confidence |-> Min(80, 50 + Abs(score) * 10)]
    ELSE [advice |-> "HOLD", confidence |-> 60]

calculateAdvice(metal) ==
    IF insufficientData(priceCache[metal], priceHistory[metal])
    THEN InsufficientAdvice
    ELSE LET s == scoring(metal)
             d == determineAdvice(s.score)
         IN  IF s.threw THEN TypeError
             ELSE [t |-> "return", advice |-> d.advice,
                   confidence |-> d.confidence, reasons |-> s.reasons]

----------------------------------------------------------------------------
(* Bounds of the model *)

\* async invocations (listen callback, handlers, timer callbacks) in flight
MaxTasks == 2
\* clock advances
MaxTicks == 1
\* client requests and timer callbacks after the listen callback
MaxRequests == 1
\* samples in a history handed to calculateAdvice on its own
MaxHist == 3

(* Program constants *)

FIVE_MIN == 5 * 60 * 1000
WEEK == 7 * 24 * 60 * 60 * 1000
METALS_INTERVAL == 5 * 60 * 1000
CRYPTO_INTERVAL == 2 * 60 * 1000
NEWS_INTERVAL == 30 * 60 * 1000

\* amounts by which the clock advances between two events
ClockSteps == {FIVE_MIN, WEEK, WEEK + FIVE_MIN}

Infinity == [t |-> "Infinity"]
\* age > limit, for an age that is a number or Infinity
OlderThan(age, limit) == age.t = "Infinity" \/ age.v > limit

----------------------------------------------------------------------------
(* Upstream answers *)

\* goldapi.io: the payloads of a successful pair of calls (price, chp per metal;
\* a field the payload lacks reads as undefined), or a failure
GoldApiPayloads ==
    { [gold |-> [price |-> Num(250000), chp |-> Num(-300)],
       silver |-> [price |-> Num(2900), chp |-> Num(0)]],
      [gold |-> [price |-> Num(240000), chp |-> Undefined],
       silver |-> [price |-> Num(3000), chp |-> Null]] }
GoldApiOutcomes == GoldApiPayloads \cup {[t |-> "notOk"], [t |-> "throw"]}

\* frankfurter: an answer carrying rates.EUR (in hundredths), an answer without
\* it, or a fetch / json() that throws
RateOutcomes == {[t |-> "rate", EUR |-> 88], [t |-> "noRate"], [t |-> "throw"]}

\* Math.random(), in hundredths
RandomDraws == {50}

\* newsapi.org, per query: articles, zero articles, a non-success status, a
\* body json() rejects, or a fetch that throws
NewsOutcomes == {"articles", "zero", "notOk", "badBody", "throw"}

\* coingecko: the coins of a successful answer, a non-success status, a fetch
\* or json() that throws, or a payload coins.map(...) throws on
CoinLists ==
    { << [id |-> "bitcoin", price |-> 1], [id |-> "ethereum", price |-> 2] >>,
      << [id |-> "bitcoin", price |-> 3], [id |-> "solana", price |-> 4] >> }
CryptoOutcomes ==
    {[t |-> "ok", coins |-> c] : c \in CoinLists}
    \cup {[t |-> "notOk"], [t |-> "throw"], [t |-> "unmappable"]}

----------------------------------------------------------------------------
(* Price fetching *)

\* fetchGoldApiPrices, once both calls have answered
fetchGoldApiPrices(outcome) ==
    IF outcome \in GoldApiPayloads
    THEN [gold |-> Quote(outcome.gold.price, outcome.gold.chp),
          silver |-> Quote(outcome.silver.price, outcome.silver.chp)]
    ELSE Null

StaticPrices ==
    [gold |-> Quote(Num(245000), Num(20)), silver |-> Quote(Num(2850), Num(35))]

\* fetchFreePrices, once the rate call has answered; r1..r4 are the four
\* Math.random() draws in source order
fetchFreePricesDefaultRateOnError(outcome, r1, r2, r3, r4) ==
    LET eurRate == IF outcome.t = "rate" /\ outcome.EUR # 0 THEN outcome.EUR ELSE 92
        goldUsd == 265000 + (r1 - 50) * 20
        silverUsd == 3100 + ((r2 - 50) * 50) \div 100
        goldChange == (r3 - 50) * 30
        silverChange == ((r4 - 50) * 50) \div 100
    IN  [gold |-> Quote(Num((goldUsd * eurRate) \div 100),
                        Num((goldChange * 100 * PCT) \div goldUsd)),
         silver |-> Quote(Num((silverUsd * eurRate) \div 100),
                          Num((silverChange * 100 * PCT) \div silverUsd))]

fetchFreePricesNullOnError(outcome, r1, r2, r3, r4) ==
    IF outcome.t = "throw" THEN Null
    ELSE LET eurRate == IF outcome.t = "rate" /\ outcome.EUR # 0 THEN outcome.EUR ELSE 92
             goldUsd == 265000 + (r1 - 50) * 20
             silverUsd == 3100 + ((r2 - 50) * 50) \div 100
             goldChange == (r3 - 50) * 30
             silverChange == ((r4 - 50) * 50) \div 100
         IN  [gold |-> Quote(Num((goldUsd * eurRate) \div 100),
                             Num((goldChange * 100 * PCT) \div goldUsd)),
              silver |-> Quote(Num((silverUsd * eurRate) \div 100),
                               Num((silverChange * 100 * PCT) \div silverUsd))]

fetchFreePrices(outcome, r1, r2, r3, r4) ==
    IF outcome.t = "throw" THEN StaticPrices
    ELSE LET eurRate == IF outcome.t = "rate" /\ outcome.EUR # 0 THEN outcome.EUR ELSE 92
             goldUsd == 265000 + (r1 - 50) * 20
             silverUsd == 3100 + ((r2 - 50) * 50) \div 100
             goldChange == (r3 - 50) * 30
             silverChange == ((r4 - 50) * 50) \div 100
         IN  [gold |-> Quote(Num((goldUsd * eurRate) \div 100),
                             Num((goldChange * 100 * PCT) \div goldUsd)),
              silver |-> Quote(Num((silverUsd * eurRate) \div 100),
                               Num((silverChange * 100 * PCT) \div silverUsd))]

\* priceHistory[metal].push({ price, timestamp })
pushFront(history, sample) == <<sample>> \o history
push(history, sample) == Append(history, sample)

\* priceHistory[metal].filter(p => p.timestamp > weekAgo)
keepEverything(history, weekAgo) == history
keepFromWeekAgo(history, weekAgo) ==
    SelectSeq(history, LAMBDA p : p.timestamp >= weekAgo)
keepLast7Days(history, weekAgo) ==
    SelectSeq(history, LAMBDA p : p.timestamp > weekAgo)

\* the synchronous tail of fetchPrices: if (prices) { push, filter, replace }
historyAfterGoldOnly(prices) ==
    IF prices # Null
    THEN [m \in Metals |->
            keepLast7Days(IF m = "gold"
                          THEN push(priceHistory[m],
                                    [price |-> prices[m].price, timestamp |-> now])
                          ELSE priceHistory[m],
                          now - WEEK)]
    ELSE priceHistory

historyAfter(prices) ==
    IF prices # Null
    THEN [m \in Metals |->
            keepLast7Days(push(priceHistory[m],
                               [price |-> prices[m].price, timestamp |-> now]),
                          now - WEEK)]
    ELSE priceHistory

priceCacheAfterGoldOnly(prices) ==
    IF prices # Null
    THEN [gold |-> prices.gold, silver |-> priceCache.silver,
          lastUpdate |-> toISOString(now)]
    ELSE priceCache

priceCacheAfter(prices) ==
    IF prices # Null
    THEN [gold |-> prices.gold, silver |-> prices.silver,
          lastUpdate |-> toISOString(now)]
    ELSE priceCache

----------------------------------------------------------------------------
(* Crypto fetching *)

\* fetchTopCryptos, once the call has answered
cryptoCacheAfterMerged(outcome) ==
    IF outcome.t = "ok"
    THEN [top10 |-> outcome.coins,
          prices |-> cryptoCache.prices \cup
                     {[id |-> outcome.coins[i].id, price |-> outcome.coins[i].price] :
                        i \in 1..Len(outcome.coins)},
          lastUpdate |-> toISOString(now)]
    ELSE cryptoCache

cryptoCacheAfterStamped(outcome) ==
    IF outcome.t = "ok"
    THEN [top10 |-> outcome.coins,
          prices |-> {[id |-> outcome.coins[i].id, price |-> outcome.coins[i].price] :
                        i \in 1..Len(outcome.coins)},
          lastUpdate |-> toISOString(now)]
    ELSE [cryptoCache EXCEPT !.lastUpdate = toISOString(now)]

cryptoCacheAfter(outcome) ==
    IF outcome.t = "ok"
    THEN [top10 |-> outcome.coins,
          prices |-> {[id |-> outcome.coins[i].id, price |-> outcome.coins[i].price] :
                        i \in 1..Len(outcome.coins)},
          lastUpdate |-> toISOString(now)]
    ELSE cryptoCache

----------------------------------------------------------------------------
(* News fetching *)

Placeholders == <<"Reuters", "Bloomberg", "FT">>
Articles == <<"newsapi", "newsapi">>

\* newsItems after the try block, from the two queries' outcomes
newsItems(gold, silver) ==
    IF gold = "throw" \/ silver = "throw" THEN [gold |-> <<>>, silver |-> <<>>]
    ELSE IF gold = "badBody" THEN [gold |-> <<>>, silver |-> <<>>]
    ELSE LET g == IF gold = "articles" THEN Articles ELSE <<>> IN
         IF silver = "badBody" THEN [gold |-> g, silver |-> <<>>]
         ELSE [gold |-> g, silver |-> IF silver = "articles" THEN Articles ELSE <<>>]

\* the synchronous tail of fetchNews: placeholders, then replace newsCache
newsCacheAfter(items) ==
    [gold |-> IF Len(items.gold) = 0 THEN Placeholders ELSE items.gold,
     silver |-> IF Len(items.silver) = 0 THEN Placeholders ELSE items.silver,
     lastUpdate |-> toISOString(now)]

----------------------------------------------------------------------------
(* Async invocations in flight.  A task is a running handler or callback    *)
(* with the state of the refresh calls it has made:                         *)
(*   prices: "none", "primary" (awaiting goldapi), "free" (awaiting the     *)
(*           rate call), "done";  news, crypto: "none", "fetching", "done". *)
(* cacheAge and cryptoCacheAge are the dashboard handler's locals.          *)

Task(kind) ==
    [kind |-> kind, cacheAge |-> Undefined, cryptoCacheAge |-> Undefined,
     prices |-> "none", news |-> "none", crypto |-> "none"]

NoBag == EmptyBag
One(t) == SetToBag({t})
Running == BagToSet(tasks)

\* room for one more request or timer callback, and for one more invocation
CanServe == requests < MaxRequests
CanSpawn == BagCardinality(tasks) < MaxTasks

\* fetchPrices() up to its first network await: without the key
\* fetchGoldApiPrices returns null at once and fetchFreePrices is entered
startPrices(t) ==
    [t EXCEPT !.prices = IF GOLD_API_KEY THEN "primary" ELSE "free"]

\* fetchNews() up to its first await: without the key it has none and the
\* call runs to its end synchronously
startNews(t) ==
    [t EXCEPT !.news = IF NEWS_API_KEY THEN "fetching" ELSE "done"]

startCrypto(t) == [t EXCEPT !.crypto = "fetching"]

\* await Promise.all([fetchPrices(), fetchNews()]) is over (or was never entered)
notAwaitedBoth(t) == TRUE
awaitedBoth(t) == t.prices \in {"none", "done"} /\ t.news \in {"none", "done"}

\* if (cacheAge > 5 * 60 * 1000)
cacheIsOldUnlessInFlight(cacheAge) ==
    /\ cacheAge.t = "Infinity" \/ cacheAge.v > FIVE_MIN
    /\ ~\E u \in Running : u.prices \in {"primary", "free"}
cacheIsOldOrEqual(cacheAge) == cacheAge.t = "Infinity" \/ cacheAge.v >= FIVE_MIN
cacheIsOld(cacheAge) == OlderThan(cacheAge, FIVE_MIN)

(* Where a task stands once the call it awaited has settled: the task to    *)
(* keep waiting as (or none), whether it now sends its response, arms the   *)
(* timers, or has just run a key-less fetchNews to its end.                 *)
Step(next, respond, arm, syncNews) ==
    [next |-> next, respond |-> respond, arm |-> arm, syncNews |-> syncNews]
Wait(t) == Step(One(t), FALSE, FALSE, FALSE)

\* app.listen callback: await fetchPrices(); await fetchNews();
\* await fetchTopCryptos(); setInterval x 3
resumeListenEager(t) ==
    IF t.prices # "done" THEN Wait(t) ELSE Step(NoBag, FALSE, TRUE, FALSE)

resumeListen(t) ==
    IF t.prices # "done" THEN Wait(t)
    ELSE IF t.news = "none"
    THEN LET t2 == startNews(t) IN
         IF t2.news = "done"
         THEN Step(One(startCrypto(t2)), FALSE, FALSE, TRUE)
         ELSE Wait(t2)
    ELSE IF t.news = "fetching" THEN Wait(t)
    ELSE IF t.crypto = "none" THEN Wait(startCrypto(t))
    ELSE IF t.crypto = "fetching" THEN Wait(t)
    ELSE Step(NoBag, FALSE, TRUE, FALSE)

\* app.get('/api/dashboard') after its locals are set and, if the cache is
\* old, both refresh calls are started
resumeDashboard(t) ==
    IF ~awaitedBoth(t) THEN Wait(t)
    ELSE IF cacheIsOld(t.cryptoCacheAge) /\ t.crypto = "none" THEN Wait(startCrypto(t))
    ELSE IF t.crypto = "fetching" THEN Wait(t)
    ELSE Step(NoBag, TRUE, FALSE, FALSE)

\* app.post('/api/refresh')
resumeRefreshEarly(t) == Step(NoBag, TRUE, FALSE, FALSE)

resumeRefresh(t) ==
    IF ~awaitedBoth(t) THEN Wait(t) ELSE Step(NoBag, TRUE, FALSE, FALSE)

\* the setInterval callbacks
resumeTimer(t) ==
    IF t.prices \in {"primary", "free"} \/ t.news = "fetching" \/ t.crypto = "fetching"
    THEN Wait(t)
    ELSE Step(NoBag, FALSE, FALSE, FALSE)

resume(t) ==
    CASE t.kind = "listen" -> resumeListen(t)
      [] t.kind = "dashboard" -> resumeDashboard(t)
      [] t.kind = "refresh" -> resumeRefresh(t)
      [] OTHER -> resumeTimer(t)

----------------------------------------------------------------------------
(* Responses *)

slice(seq, n) == SubSeq(seq, 1, Min(n, Len(seq)))
sliceLast(seq, n) == SubSeq(seq, Len(seq) - Min(n, Len(seq)) + 1, Len(seq))

\* the object handed to res.json by the dashboard route
dashboardBody ==
    [prices |-> [gold |-> priceCache.gold, silver |-> priceCache.silver,
                 lastUpdate |-> priceCache.lastUpdate],
     news |-> [gold |-> slice(newsCache.gold, 5), silver |-> slice(newsCache.silver, 5),
               lastUpdate |-> newsCache.lastUpdate],
     advice |-> [gold |-> calculateAdvice("gold"), silver |-> calculateAdvice("silver")],
     history |-> [gold |-> sliceLast(priceHistory.gold, 24),
                  silver |-> sliceLast(priceHistory.silver, 24)],
     crypto |-> [top10 |-> cryptoCache.top10, prices |-> cryptoCache.prices,
                 lastUpdate |-> cryptoCache.lastUpdate]]

\* what the handler t sends when it reaches its res.json; building the
\* dashboard body throws when calculateAdvice does
response(t) ==
    IF t.kind = "refresh"
    THEN [route |-> "/api/refresh", status |-> 200, body |-> [ok |-> TRUE], handler |-> t]
    ELSE IF calculateAdvice("gold").t = "throw" \/ calculateAdvice("silver").t = "throw"
    THEN [route |-> "/api/dashboard", status |-> 0, body |-> TypeError, handler |-> t]
    ELSE [route |-> "/api/dashboard", status |-> 200, body |-> dashboardBody, handler |-> t]

----------------------------------------------------------------------------
(* The server *)

config == <<GOLD_API_KEY, NEWS_API_KEY>>
clock == <<now, ticks>>
\* one more request is served or one more timer callback runs
Served == CanServe /\ requests' = requests + 1

NoNewsItems == [gold |-> <<>>, silver |-> <<>>]

Init ==
    /\ GOLD_API_KEY \in BOOLEAN
    /\ NEWS_API_KEY \in BOOLEAN
    /\ now = 0
    /\ ticks = 0
    /\ priceCache = [gold |-> Null, silver |-> Null, lastUpdate |-> Null]
    /\ newsCache = [gold |-> <<>>, silver |-> <<>>, lastUpdate |-> Null]
    /\ priceHistory = [gold |-> <<>>, silver |-> <<>>]
    /\ cryptoCache = [top10 |-> <<>>, prices |-> {}, lastUpdate |-> Null]
    \* the listen callback has run up to its first await
    /\ tasks = One(startPrices(Task("listen")))
    /\ timers = [metals |-> Null, crypto |-> Null, news |-> Null]
    /\ requests = 0
    /\ res = Null

\* time passes
Tick ==
    /\ ticks < MaxTicks
    /\ \E d \in ClockSteps : now' = now + d
    /\ ticks' = ticks + 1
    /\ res' = Null
    /\ UNCHANGED <<config, priceCache, newsCache, priceHistory, cryptoCache, tasks, timers, requests>>

\* the call task t awaited has settled and left t as t2: t's continuation runs
Settled(t, t2) ==
    LET s == resume(t2) IN
    /\ tasks' = (tasks (-) One(t)) (+) s.next
    /\ timers' = IF s.arm
                 THEN [metals |-> Num(now + METALS_INTERVAL),
                       crypto |-> Num(now + CRYPTO_INTERVAL),
                       news |-> Num(now + NEWS_INTERVAL)]
                 ELSE timers
    /\ res' = IF s.respond THEN response(t2)' ELSE Null

\* fetchPrices from "if (prices)" to its return, and its caller's continuation
StorePrices(t, prices) ==
    LET t2 == [t EXCEPT !.prices = "done"] IN
    /\ priceHistory' = historyAfter(prices)
    /\ priceCache' = priceCacheAfter(prices)
    /\ newsCache' = IF resume(t2).syncNews THEN newsCacheAfter(NoNewsItems) ELSE newsCache
    /\ UNCHANGED <<config, clock, cryptoCache, requests>>
    /\ Settled(t, t2)

\* goldapi.io answers a fetchPrices call: the quote is stored, or the call
\* falls back to fetchFreePrices
GoldApiAnswers ==
    \E t \in Running, outcome \in GoldApiOutcomes :
        /\ t.prices = "primary"
        /\ LET prices == fetchGoldApiPrices(outcome) IN
           IF prices = Null
           THEN /\ tasks' = (tasks (-) One(t)) (+) One([t EXCEPT !.prices = "free"])
                /\ res' = Null
                /\ UNCHANGED <<config, clock, priceCache, newsCache, priceHistory,
                               cryptoCache, timers, requests>>
           ELSE StorePrices(t, prices)

\* frankfurter answers a fetchPrices call that fell back
RateAnswers ==
    \E t \in Running, outcome \in RateOutcomes, r1, r2, r3, r4 \in RandomDraws :
        /\ t.prices = "free"
        /\ StorePrices(t, fetchFreePrices(outcome, r1, r2, r3, r4))

\* newsapi.org answers the two queries of a fetchNews call
NewsAnswers ==
    \E t \in Running, gold, silver \in NewsOutcomes :
        /\ t.news = "fetching"
        /\ newsCache' = newsCacheAfter(newsItems(gold, silver))
        /\ UNCHANGED <<config, clock, priceCache, priceHistory, cryptoCache, requests>>
        /\ Settled(t, [t EXCEPT !.news = "done"])

\* coingecko answers a fetchTopCryptos call
CryptoAnswers ==
    \E t \in Running, outcome \in CryptoOutcomes :
        /\ t.crypto = "fetching"
        /\ cryptoCache' = cryptoCacheAfter(outcome)
        /\ UNCHANGED <<config, clock, priceCache, newsCache, priceHistory, requests>>
        /\ Settled(t, [t EXCEPT !.crypto = "done"])

\* Date.now() - new Date(lastUpdate).getTime(), or Infinity
ageOf(lastUpdate) ==
    IF lastUpdate # Null THEN Num(now - getTime(lastUpdate)) ELSE Infinity

\* GET /api/dashboard arrives and runs to its first await or to its response
Dashboard ==
    LET t0 == [Task("dashboard") EXCEPT !.cacheAge = ageOf(priceCache.lastUpdate),
                                        !.cryptoCacheAge = ageOf(cryptoCache.lastUpdate)]
        old == cacheIsOld(t0.cacheAge)
        t1 == IF old THEN startNews(startPrices(t0)) ELSE t0
        s == resume(t1)
    IN  /\ Served
        /\ s.next # NoBag => CanSpawn
        /\ newsCache' = IF old /\ t1.news = "done" THEN newsCacheAfter(NoNewsItems)
                        ELSE newsCache
        /\ tasks' = tasks (+) s.next
        /\ UNCHANGED <<config, clock, priceCache, priceHistory, cryptoCache, timers>>
        /\ res' = IF s.respond THEN response(t1)' ELSE Null

\* POST /api/refresh arrives
Refresh ==
    LET t1 == startNews(startPrices(Task("refresh"))) IN
    /\ Served
    /\ CanSpawn
    /\ newsCache' = IF t1.news = "done" THEN newsCacheAfter(NoNewsItems) ELSE newsCache
    /\ tasks' = tasks (+) One(t1)
    /\ res' = Null
    /\ UNCHANGED <<config, clock, priceCache, priceHistory, cryptoCache, timers>>

\* req.query.ids: absent, or the string split at its commas
IdsQueries ==
    {Undefined} \cup {[t |-> "string", split |-> q] :
                         q \in {<<"">>, <<"bitcoin">>, <<"bitcoin", "doesnotexist">>}}

\* GET /api/crypto/prices
CryptoPrices ==
    \E query \in IdsQueries :
        LET ids == IF query = Undefined THEN <<>> ELSE query.split
            body == IF Len(ids) = 0 THEN [prices |-> cryptoCache.prices]
                    ELSE [prices |-> {p \in cryptoCache.prices :
                                        \E i \in 1..Len(ids) : ids[i] = p.id}]
        IN  /\ Served
            /\ res' = [route |-> "/api/crypto/prices", status |-> 200,
                       body |-> body, handler |-> [ids |-> ids]]
            /\ UNCHANGED <<config, clock, priceCache, newsCache, priceHistory,
                           cryptoCache, tasks, timers>>

\* GET /health
Health ==
    /\ Served
    /\ res' = [route |-> "/health", status |-> 200,
               body |-> [status |-> "ok", timestamp |-> toISOString(now)],
               handler |-> Null]
    /\ UNCHANGED <<config, clock, priceCache, newsCache, priceHistory, cryptoCache,
                   tasks, timers>>

due(timer) == timer # Null /\ now >= timer.v

\* setInterval(async () => { await fetchPrices(); ... }, 5 min)
MetalsTimer ==
    /\ due(timers.metals)
    /\ Served
    /\ CanSpawn
    /\ tasks' = tasks (+) One(startPrices(Task("metalsTimer")))
    /\ timers' = [timers EXCEPT !.metals = Num(now + METALS_INTERVAL)]
    /\ res' = Null
    /\ UNCHANGED <<config, clock, priceCache, newsCache, priceHistory, cryptoCache>>

\* setInterval(async () => { await fetchTopCryptos() }, 2 min)
CryptoTimer ==
    /\ due(timers.crypto)
    /\ Served
    /\ CanSpawn
    /\ tasks' = tasks (+) One(startCrypto(Task("cryptoTimer")))
    /\ timers' = [timers EXCEPT !.crypto = Num(now + CRYPTO_INTERVAL)]
    /\ res' = Null
    /\ UNCHANGED <<config, clock, priceCache, newsCache, priceHistory, cryptoCache>>

\* setInterval(fetchNews, 30 min)
NewsTimer ==
    LET t1 == startNews(Task("newsTimer")) IN
    /\ due(timers.news)
    /\ Served
    /\ t1.news = "fetching" => CanSpawn
    /\ tasks' = IF t1.news = "fetching" THEN tasks (+) One(t1) ELSE tasks
    /\ newsCache' = IF t1.news = "done" THEN newsCacheAfter(NoNewsItems) ELSE newsCache
    /\ timers' = [timers EXCEPT !.news = Num(now + NEWS_INTERVAL)]
    /\ res' = Null
    /\ UNCHANGED <<config, clock, priceCache, priceHistory, cryptoCache>>

Next ==
    \/ Tick
    \/ GoldApiAnswers
    \/ RateAnswers
    \/ NewsAnswers
    \/ CryptoAnswers
    \/ Dashboard
    \/ Refresh
    \/ CryptoPrices
    \/ Health
    \/ MetalsTimer
    \/ CryptoTimer
    \/ NewsTimer

Spec == Init /\ [][Next]_vars

----------------------------------------------------------------------------
(* calculateAdvice on its own: the caches and histories a goldapi.io-fed    *)
(* server can hold once its refreshes have settled, and one call per step.  *)

\* quotes goldapi.io can deliver: prices around the thresholds of the weekly
\* and the ratio rule, a payload without price, and every kind of chp
GoldPrices == {Num(600000), Num(665000), Num(700000), Num(735000), Num(850000),
               Num(900000), Undefined}
SilverPrices == {Num(9400), Num(9500), Num(10000), Num(10500), Num(10600)}
ChangePercents == {Num(-201), Num(-200), Num(200), Num(201), Null, Undefined}

\* the history left by n refreshes five minutes apart: the first one stored
\* price first, the later ones price last
historyOf(first, last, n) ==
    [i \in 1..n |-> [price |-> IF i = 1 /\ n > 1 THEN first ELSE last,
                     timestamp |-> (i - 1) * FIVE_MIN]]

InitAdvice ==
    \E n \in 0..MaxHist, g \in GoldPrices, s \in SilverPrices,
       gc \in ChangePercents, sc \in ChangePercents :
        /\ GOLD_API_KEY = TRUE
        /\ NEWS_API_KEY = FALSE
        /\ now = IF n = 0 THEN 0 ELSE (n - 1) * FIVE_MIN
        /\ ticks = 0
        /\ priceCache = IF n = 0 THEN [gold |-> Null, silver |-> Null, lastUpdate |-> Null]
                        ELSE [gold |-> Quote(g, gc), silver |-> Quote(s, sc),
                              lastUpdate |-> toISOString(now)]
        /\ priceHistory = [gold |-> historyOf(Num(700000), g, n),
                           silver |-> historyOf(Num(10000), s, n)]
        /\ newsCache = [gold |-> <<>>, silver |-> <<>>, lastUpdate |-> Null]
        /\ cryptoCache = [top10 |-> <<>>, prices |-> {}, lastUpdate |-> Null]
        /\ tasks = NoBag
        /\ timers = [metals |-> Null, crypto |-> Null, news |-> Null]
        /\ requests = 0
        /\ res = Null

\* calculateAdvice(metal) is called and returns or throws
\* (AdviseInPlace: the newest sample read with history.pop())
AdviseInPlace(metal) ==
    /\ res' = [route |-> "calculateAdvice", status |-> 200,
               body |-> calculateAdvice(metal), handler |-> [metal |-> metal]]
    /\ priceHistory' = [priceHistory EXCEPT ![metal] = SubSeq(@, 1, Len(@) - 1)]
    /\ UNCHANGED <<config, clock, priceCache, newsCache, cryptoCache,
                   tasks, timers, requests>>

Advise(metal) ==
    /\ res' = [route |-> "calculateAdvice", status |-> 200,
               body |-> calculateAdvice(metal), handler |-> [metal |-> metal]]
    /\ UNCHANGED <<config, clock, priceCache, newsCache, priceHistory, cryptoCache,
                   tasks, timers, requests>>

NextAdvice == \E metal \in Metals : Advise(metal)

SpecAdvice == InitAdvice /\ [][NextAdvice]_vars

----------------------------------------------------------------------------
(* fetchTopCryptos and fetchNews on their own: after start-up, one call at  *)
(* a time runs from its start to its return, as the crypto and the news     *)
(* timer make it, and what it returned is kept together with the upstream   *)
(* outcome it met.                                                          *)

\* the news lists a settled fetchNews can have left
NewsLists == {Placeholders, Articles}

InitAdapters ==
    \E g \in NewsLists, s \in NewsLists, c \in CryptoOutcomes :
        /\ GOLD_API_KEY = FALSE
        /\ NEWS_API_KEY \in BOOLEAN
        /\ (~NEWS_API_KEY) => (g = Placeholders /\ s = Placeholders)
        /\ now = 0
        /\ ticks = 0
        /\ priceCache = [gold |-> StaticPrices.gold, silver |-> StaticPrices.silver,
                         lastUpdate |-> toISOString(0)]
        /\ priceHistory =
               [m \in Metals |-> <<[price |-> StaticPrices[m].price, timestamp |-> 0]>>]
        /\ newsCache = [gold |-> g, silver |-> s, lastUpdate |-> toISOString(0)]
        /\ cryptoCache = IF c.t = "ok"
                         THEN [top10 |-> c.coins,
                               prices |-> {[id |-> c.coins[i].id, price |-> c.coins[i].price] :
                                             i \in 1..Len(c.coins)},
                               lastUpdate |-> toISOString(0)]
                         ELSE [top10 |-> <<>>, prices |-> {}, lastUpdate |-> Null]
        /\ tasks = NoBag
        /\ timers = [metals |-> Num(METALS_INTERVAL), crypto |-> Num(CRYPTO_INTERVAL),
                     news |-> Num(NEWS_INTERVAL)]
        /\ requests = 0
        /\ res = Null

\* one fetchTopCryptos call, from its fetch to its return
FetchTopCryptos ==
    \E outcome \in CryptoOutcomes :
        /\ cryptoCache' = cryptoCacheAfter(outcome)
        /\ res' = [route |-> "fetchTopCryptos", status |-> 200,
                   body |-> IF outcome.t = "ok" THEN cryptoCache' ELSE Null,
                   handler |-> [outcome |-> outcome, before |-> cryptoCache]]
        /\ UNCHANGED <<config, clock, priceCache, newsCache, priceHistory, tasks,
                       timers, requests>>

\* one fetchNews call, from its start to its return
FetchNews ==
    \E gold \in NewsOutcomes, silver \in NewsOutcomes :
        /\ newsCache' = newsCacheAfter(IF NEWS_API_KEY THEN newsItems(gold, silver)
                                       ELSE NoNewsItems)
        /\ res' = [route |-> "fetchNews", status |-> 200, body |-> newsCache',
                   handler |-> IF NEWS_API_KEY
                               THEN [key |-> TRUE, gold |-> gold, silver |-> silver]
                               ELSE [key |-> FALSE, gold |-> "none", silver |-> "none"]]
        /\ UNCHANGED <<config, clock, priceCache, priceHistory, cryptoCache, tasks,
                       timers, requests>>

NextAdapters == Tick \/ FetchTopCryptos \/ FetchNews

SpecAdapters == InitAdapters /\ [][NextAdapters]_vars

----------------------------------------------------------------------------
(* The server ten minutes after a start-up that completed at 0, no timer    *)
(* callback having run yet: the price cache is stale, and a first           *)
(* GET /api/dashboard has just arrived and awaits its refresh calls.        *)
(* requests counts the requests and timer callbacks that follow it.         *)

StaleAt == 2 * FIVE_MIN

\* the handler of the first dashboard request, at its first await
FirstDashboard ==
    startNews(startPrices(
        [Task("dashboard") EXCEPT !.cacheAge = ageOf(priceCache.lastUpdate),
                                  !.cryptoCacheAge = ageOf(cryptoCache.lastUpdate)]))

InitStale ==
    \E c \in CryptoOutcomes :
        /\ GOLD_API_KEY \in BOOLEAN
        /\ NEWS_API_KEY \in BOOLEAN
        /\ now = StaleAt
        /\ ticks = 0
        /\ priceCache = [gold |-> StaticPrices.gold, silver |-> StaticPrices.silver,
                         lastUpdate |-> toISOString(0)]
        /\ priceHistory =
               [m \in Metals |-> <<[price |-> StaticPrices[m].price, timestamp |-> 0]>>]
        \* without the key the first request's fetchNews has already run
        /\ newsCache = [gold |-> Placeholders, silver |-> Placeholders,
                        lastUpdate |-> toISOString(IF NEWS_API_KEY THEN 0 ELSE now)]
        /\ cryptoCache = IF c.t = "ok"
                         THEN [top10 |-> c.coins,
                               prices |-> {[id |-> c.coins[i].id, price |-> c.coins[i].price] :
                                             i \in 1..Len(c.coins)},
                               lastUpdate |-> toISOString(0)]
                         ELSE [top10 |-> <<>>, prices |-> {}, lastUpdate |-> Null]
        /\ tasks = One(FirstDashboard)
        /\ timers = [metals |-> Num(METALS_INTERVAL), crypto |-> Num(CRYPTO_INTERVAL),
                     news |-> Num(NEWS_INTERVAL)]
        /\ requests = 0
        /\ res = Null

\* the dashboard requests and the upstream answers they wait for
NextStale ==
    \/ GoldApiAnswers
    \/ RateAnswers
    \/ NewsAnswers
    \/ CryptoAnswers
    \/ Dashboard

SpecStale == InitStale /\ [][NextStale]_vars

----------------------------------------------------------------------------
(* fetchPrices on its own: after start-up, one call at a time runs from its *)
(* start to its return, as the metals timer makes it, and what it returned  *)
(* is kept together with the upstream outcomes it met.  requests counts the *)
(* calls made.                                                              *)

\* Math.random(), in hundredths: both ends of [0, 1)
JitterDraws == {0, 99}

\* no call was made
NotCalled == [t |-> "none"]

InitPrices ==
    /\ GOLD_API_KEY \in BOOLEAN
    /\ NEWS_API_KEY = FALSE
    /\ now = 0
    /\ ticks = 0
    /\ priceCache = [gold |-> StaticPrices.gold, silver |-> StaticPrices.silver,
                     lastUpdate |-> toISOString(0)]
    /\ priceHistory =
           [m \in Metals |-> <<[price |-> StaticPrices[m].price, timestamp |-> 0]>>]
    /\ newsCache = [gold |-> Placeholders, silver |-> Placeholders,
                    lastUpdate |-> toISOString(0)]
    /\ cryptoCache = [top10 |-> <<>>, prices |-> {}, lastUpdate |-> Null]
    /\ tasks = NoBag
    /\ timers = [metals |-> Num(METALS_INTERVAL), crypto |-> Num(CRYPTO_INTERVAL),
                 news |-> Num(NEWS_INTERVAL)]
    /\ requests = 0
    /\ res = Null

\* one fetchPrices call, from its start to its return: fetchGoldApiPrices,
\* then fetchFreePrices if it returned null, then the store
FetchPrices ==
    \E primary \in GoldApiOutcomes, rate \in RateOutcomes,
       r1 \in JitterDraws, r2 \in JitterDraws, r3 \in JitterDraws, r4 \in JitterDraws :
        LET first == IF GOLD_API_KEY THEN fetchGoldApiPrices(primary) ELSE Null
            prices == IF first = Null THEN fetchFreePrices(rate, r1, r2, r3, r4)
                      ELSE first
        IN  /\ Served
            /\ priceHistory' = historyAfter(prices)
            /\ priceCache' = priceCacheAfter(prices)
            /\ res' = [route |-> "fetchPrices", status |-> 200, body |-> priceCache',
                       handler |-> [key |-> GOLD_API_KEY,
                                    primary |-> IF GOLD_API_KEY THEN primary ELSE NotCalled,
                                    rate |-> IF first = Null THEN rate ELSE NotCalled]]
            /\ UNCHANGED <<config, clock, newsCache, cryptoCache, tasks, timers>>

NextPrices == Tick \/ FetchPrices

SpecPrices == InitPrices /\ [][NextPrices]_vars

----------------------------------------------------------------------------
(* Properties *)

\* what the claims observe
DashboardAnswered == res # Null /\ res.route = "/api/dashboard"
DashboardSent == DashboardAnswered /\ res.status = 200
AdviceReturned(metal) ==
    /\ res # Null
    /\ res.route = "calculateAdvice"
    /\ res.handler.metal = metal
    /\ res.body.t = "return"
Sufficient(metal) == priceCache[metal] # Null /\ Len(priceHistory[metal]) >= 2
HasReason(body, reason) == \E i \in 1..Len(body.reasons) : body.reasons[i] = reason

\* C1: whenever priceCache[metal] is null or priceHistory[metal] holds fewer
\* than 2 samples, calculateAdvice(metal) returns exactly HOLD, confidence 50
\* and the single reason "Insufficient data for analysis", for gold and for
\* silver, in every reachable state and in every dashboard response.
C1_InsufficientData ==
    \A m \in Metals :
        (priceCache[m] = Null \/ Len(priceHistory[m]) < 2) =>
            /\ calculateAdvice(m) =
                 [t |-> "return", advice |-> "HOLD", confidence |-> 50,
                  reasons |-> <<"Insufficient data for analysis">>]
            /\ DashboardSent => res.body.advice[m] = calculateAdvice(m)

\* a dashboard answered after exactly one completed fetchPrices
C1_Witness ==
    /\ DashboardSent
    /\ priceCache.gold # Null
    /\ Len(priceHistory.gold) = 1
    /\ Len(priceHistory.silver) = 1
    /\ res.body.advice.gold.confidence = 50
    /\ res.body.advice.silver.confidence = 50

\* C2: with sufficient data the returned advice is determined by the score
\* alone: score >= 2 gives BUY with confidence min(80, 50 + 10*score),
\* score <= -2 gives SELL with confidence min(80, 50 + 10*|score|), and the
\* scores -1, 0, 1 give HOLD with confidence exactly 60.
C2_ScoreMapping ==
    \A m \in Metals :
        (AdviceReturned(m) /\ Sufficient(m)) =>
            LET score == scoring(m).score
                magnitude == IF score < 0 THEN -score ELSE score
                capped == IF 50 + 10 * magnitude > 80 THEN 80 ELSE 50 + 10 * magnitude
            IN  /\ score >= 2 => res.body.advice = "BUY" /\ res.body.confidence = capped
                /\ score <= -2 => res.body.advice = "SELL" /\ res.body.confidence = capped
                /\ score \in {-1, 0, 1} =>
                       res.body.advice = "HOLD" /\ res.body.confidence = 60

\* gold scored 4: BUY, and the cap at 80 applies
C2_Witness ==
    /\ AdviceReturned("gold")
    /\ Sufficient("gold")
    /\ scoring("gold").score = 4
    /\ res.body.advice = "BUY"
    /\ res.body.confidence = 80

\* the 24h-momentum term of a quote's changePercent24h
MomentumTerm(chp) ==
    IF IsNum(chp) /\ chp.v < -2 * PCT THEN 2
    ELSE IF IsNum(chp) /\ chp.v > 2 * PCT THEN -1
    ELSE 0

\* the weekly-trend term: (newest - oldest) / oldest * 100 against -5 and 5,
\* between the last and the first retained sample (prices are positive)
WeeklyTerm(history) ==
    LET oldest == history[1].price
        newest == history[Len(history)].price
    IN  IF IsNum(oldest) /\ IsNum(newest)
        THEN IF (newest.v - oldest.v) * 100 < -5 * oldest.v THEN 2
             ELSE IF (newest.v - oldest.v) * 100 > 5 * oldest.v THEN -1
             ELSE 0
        ELSE 0

AdviceFor(score) ==
    IF score >= 2 THEN "BUY" ELSE IF score <= -2 THEN "SELL" ELSE "HOLD"

\* C3: for gold with sufficient data the score is the 24h-momentum term (+2
\* if changePercent24h < -2, -1 if > 2, else 0) plus the weekly-trend term
\* (+2 if weeklyChange < -5, -1 if > 5, else 0) taken between the last and
\* the oldest retained sample; the comparisons are strict, so -2, 2, -5 and
\* 5 themselves contribute 0.
C3_GoldScore ==
    (AdviceReturned("gold") /\ Sufficient("gold")) =>
        LET expected == MomentumTerm(priceCache.gold.changePercent24h)
                        + WeeklyTerm(priceHistory.gold)
        IN  /\ scoring("gold").score = expected
            /\ res.body.advice = AdviceFor(expected)

\* gold at exactly -2 % over 24h and exactly -5 % over the retained history
C3_Witness ==
    /\ AdviceReturned("gold")
    /\ Sufficient("gold")
    /\ priceCache.gold.changePercent24h = Num(-2 * PCT)
    /\ priceHistory.gold[1].price = Num(700000)
    /\ priceHistory.gold[Len(priceHistory.gold)].price = Num(665000)
    /\ scoring("gold").score = 0
    /\ res.body.advice = "HOLD"

AuAgReasons ==
    {"Au/Ag ratio: (silver undervalued historically)",
     "Au/Ag ratio: (silver relatively expensive)",
     "Au/Ag ratio: (normal range)"}

\* the ratio term of goldPrice / silverPrice against 85 and 70
RatioTerm(goldPrice, silverPrice) ==
    IF IsNum(goldPrice) /\ IsNum(silverPrice)
    THEN IF goldPrice.v > 85 * silverPrice.v THEN 1
         ELSE IF goldPrice.v < 70 * silverPrice.v THEN -1
         ELSE 0
    ELSE 0

\* C4: the gold/silver ratio rule is applied only to silver's advice and
\* only with a current gold quote: ratio = goldPrice / silverPrice adds +1
\* when ratio > 85, -1 when ratio < 70 and 0 otherwise; gold's advice never
\* has a ratio contribution or an Au/Ag reason, whatever the silver quote.
C4_RatioRule ==
    /\ (AdviceReturned("silver") /\ Sufficient("silver")) =>
           LET others == MomentumTerm(priceCache.silver.changePercent24h)
                         + WeeklyTerm(priceHistory.silver)
               applied == \E r \in AuAgReasons : HasReason(res.body, r)
           IN  /\ applied => priceCache.gold # Null
               /\ scoring("silver").score - others =
                    IF applied
                    THEN RatioTerm(priceCache.gold.price, priceCache.silver.price)
                    ELSE 0
               /\ IsNum(priceCache.gold.price) => applied
    /\ (AdviceReturned("gold") /\ Sufficient("gold")) =>
           /\ scoring("gold").score =
                MomentumTerm(priceCache.gold.changePercent24h)
                + WeeklyTerm(priceHistory.gold)
           /\ \A r \in AuAgReasons : ~HasReason(res.body, r)

\* silver advised at a ratio of 90
C4_Witness ==
    /\ AdviceReturned("silver")
    /\ Sufficient("silver")
    /\ priceCache.gold.price = Num(900000)
    /\ priceCache.silver.price = Num(10000)
    /\ HasReason(res.body, "Au/Ag ratio: (silver undervalued historically)")

\* the samples of the old history still present after an append
Retained(metal) ==
    {priceHistory'[metal][i] : i \in 1..(Len(priceHistory'[metal]) - 1)}

\* C5 (as the code has it): the pruning step that follows each append at
\* time now removes a sample if and only if its timestamp <= now - 7 days: a
\* sample exactly 7 days old is removed, every younger one is retained, for
\* gold and for silver.
C5_PruneAtSevenDays ==
    [][\A m \in Metals :
         priceHistory'[m] # priceHistory[m] =>
             /\ priceHistory'[m][Len(priceHistory'[m])].timestamp = now
             /\ \A i \in 1..Len(priceHistory[m]) :
                    (priceHistory[m][i] \in Retained(m))
                        <=> (priceHistory[m][i].timestamp > now - WEEK)]_vars

\* the start-up sample, taken at 0, is gone after a refresh exactly 7 days later
C5_Witness ==
    /\ timers.metals = Num(METALS_INTERVAL)
    /\ Len(priceHistory.gold) = 1
    /\ priceHistory.gold[1].timestamp = WEEK
    /\ Len(priceHistory.silver) = 1

\* C5 (as stated): the pruning step removes a sample if and only if its
\* timestamp < now - 7 days; a sample exactly 7 days old is retained.
C5_AsStated ==
    [][\A m \in Metals :
         priceHistory'[m] # priceHistory[m] =>
             \A i \in 1..Len(priceHistory[m]) :
                 (priceHistory[m][i] \in Retained(m))
                     <=> (priceHistory[m][i].timestamp >= now - WEEK)]_vars

\* C6: in every reachable state neither history holds a sample older than 7
\* days relative to the timestamp of the most recently appended sample.
C6_NothingOlderThanAWeek ==
    \A m \in Metals : \A i \in 1..Len(priceHistory[m]) :
        priceHistory[m][Len(priceHistory[m])].timestamp
            - priceHistory[m][i].timestamp <= WEEK

\* the start-up sample is gone after a refresh more than 7 days later
C6_Witness ==
    /\ timers.metals = Num(METALS_INTERVAL)
    /\ Len(priceHistory.gold) = 1
    /\ priceHistory.gold[1].timestamp = WEEK + FIVE_MIN

\* C7: both histories are ordered by non-decreasing timestamp in every
\* reachable state, also when several fetchPrices calls are in flight at
\* once and complete in another order than they started.
C7_Ascending ==
    \A m \in Metals : \A i, j \in 1..Len(priceHistory[m]) :
        i < j => priceHistory[m][i].timestamp <= priceHistory[m][j].timestamp

\* two fetchPrices calls were in flight at once, the start-up call and the
\* one of a dashboard that found the cache empty, and completed at
\* different instants
C7_Witness ==
    /\ Len(priceHistory.gold) = 2
    /\ priceHistory.gold[1].timestamp < priceHistory.gold[2].timestamp
    /\ \E t \in Running :
           t.kind = "dashboard" /\ t.cacheAge = Infinity /\ t.prices = "done"

PriceFresh ==
    priceCache.lastUpdate # Null /\ now - priceCache.lastUpdate.ms <= FIVE_MIN
CryptoFresh ==
    cryptoCache.lastUpdate # Null /\ now - cryptoCache.lastUpdate.ms <= FIVE_MIN
Stale(age) == age.t = "Infinity" \/ age.v > FIVE_MIN

\* a dashboard request arrives and is answered in the same step
AnsweredAtOnce ==
    requests' = requests + 1 /\ res' # Null /\ res'.route = "/api/dashboard"

\* C8: GET /api/dashboard refreshes prices before responding exactly when the
\* price cache is stale: with lastUpdate null or now - lastUpdate > 5 minutes
\* a fetchPrices call started by the request completes before the response
\* is built; with the price cache and the crypto cache both at most 5
\* minutes old the request performs no fetch and leaves priceCache,
\* newsCache, cryptoCache and priceHistory unchanged.
C8_RefreshWhenStale ==
    /\ [](DashboardAnswered =>
            (Stale(res.handler.cacheAge) <=> res.handler.prices = "done"))
    /\ [][(requests' = requests + 1 /\ PriceFresh /\ CryptoFresh) =>
            (\A t \in BagToSet(tasks') :
                 t.kind = "dashboard" => CopiesIn(t, tasks') = CopiesIn(t, tasks))]_vars
    /\ [][AnsweredAtOnce =>
            /\ PriceFresh
            /\ CryptoFresh
            /\ UNCHANGED <<priceCache, newsCache, cryptoCache, priceHistory, tasks>>]_vars

\* a dashboard that found the price cache more than 5 minutes old and
\* answered after its fetchPrices
C8_Witness ==
    /\ DashboardSent
    /\ res.handler.cacheAge.t = "number"
    /\ res.handler.cacheAge.v > FIVE_MIN
    /\ res.handler.prices = "done"
    /\ priceCache.lastUpdate = toISOString(now)

NewsFresh ==
    newsCache.lastUpdate # Null /\ now - newsCache.lastUpdate.ms <= FIVE_MIN

\* the dashboard handlers that start in this step: answered at once, or
\* left waiting
Arriving ==
    (IF AnsweredAtOnce THEN {res'.handler} ELSE {})
    \cup {t \in BagToSet(tasks') :
            /\ requests' = requests + 1
            /\ t.kind = "dashboard"
            /\ CopiesIn(t, tasks') > CopiesIn(t, tasks)}

\* C9 (as the code has it): the news cache has no staleness check of its
\* own: a GET /api/dashboard calls fetchNews exactly when the price cache is
\* stale (lastUpdate null or more than 5 minutes old), whatever the age of
\* the news, and then answers only after that call completed; with a fresh
\* price cache the response carries the cached news as they are.
C9_NewsFollowsPriceCache ==
    /\ [][\A h \in Arriving : (h.news \in {"fetching", "done"}) <=> ~PriceFresh]_vars
    /\ [](DashboardAnswered =>
            /\ res.handler.news # "fetching"
            /\ (res.handler.news = "done" <=> Stale(res.handler.cacheAge)))

\* a dashboard answered from a fresh price cache while no news had been
\* loaded yet
C9_Witness ==
    /\ DashboardSent
    /\ res.handler.news = "none"
    /\ res.body.news.lastUpdate = Null
    /\ res.body.prices.lastUpdate # Null

\* C9 (as stated): a GET /api/dashboard that arrives when newsCache.lastUpdate
\* is null or more than 5 minutes old refreshes the news before responding,
\* whatever the age of the price cache.
C9_AsStated ==
    [][\A h \in Arriving : ~NewsFresh => h.news \in {"fetching", "done"}]_vars

\* C10: every dashboard response carries non-null gold and silver quotes and
\* a non-null prices.lastUpdate: with a never-populated cache, when the
\* request arrives before the start-up fetch has completed, and when every
\* upstream call fails.
C10_QuotesPresent ==
    DashboardSent =>
        /\ res.body.prices.gold # Null
        /\ res.body.prices.silver # Null
        /\ res.body.prices.lastUpdate # Null
        /\ res.body.prices.gold.t = "quote"
        /\ res.body.prices.silver.t = "quote"

\* a dashboard that found the cache never populated and serves the static
\* last-resort quote
C10_Witness ==
    /\ DashboardSent
    /\ res.handler.cacheAge = Infinity
    /\ res.body.prices.gold = Quote(Num(245000), Num(20))
    /\ res.body.prices.silver = Quote(Num(2850), Num(35))

\* C11 (as stated): no request has a fatal error path: for every endpoint and
\* every upstream outcome, a payload without the 24h percent change
\* included, the handler completes with a 200 response and calculateAdvice
\* raises no error.
C11_AsStated ==
    (res # Null /\ res.route \in {"/api/dashboard", "/api/refresh",
                                  "/api/crypto/prices", "/health"}) =>
        /\ res.status = 200
        /\ res.body # TypeError

Booting == \E t \in Running : t.kind = "listen"

\* C12 (as the code has it): at process start the listen callback runs the
\* price, news and crypto refreshes once each, one after the other, and arms
\* the timers only when the third has settled; the price and the news
\* refresh always stamp their cache, so once the timers are armed
\* priceCache.lastUpdate and newsCache.lastUpdate are non-null.  Client
\* requests are served during start-up, and a failed crypto refresh leaves
\* cryptoCache.lastUpdate null: only prices.lastUpdate of a dashboard
\* response is never null.
C12_StartupSequence ==
    /\ \A t \in Running :
           t.kind = "listen" =>
               /\ t.news # "none" => (t.prices = "done" /\ priceCache.lastUpdate # Null)
               /\ t.crypto # "none" => (t.news = "done" /\ newsCache.lastUpdate # Null)
               /\ timers = [metals |-> Null, crypto |-> Null, news |-> Null]
    /\ timers.metals # Null =>
           /\ ~Booting
           /\ timers.crypto # Null
           /\ timers.news # Null
           /\ priceCache.lastUpdate # Null
           /\ newsCache.lastUpdate # Null
    /\ DashboardSent => res.body.prices.lastUpdate # Null

\* GET /api/crypto/prices answered during start-up from the empty crypto cache
C12_Witness ==
    /\ res # Null
    /\ res.route = "/api/crypto/prices"
    /\ res.status = 200
    /\ Booting
    /\ cryptoCache.lastUpdate = Null
    /\ res.body.prices = {}

\* C12 (as stated): the price, news and crypto refreshes each complete once
\* before any client request is served, so no request on GET /api/dashboard
\* or GET /api/crypto/prices is answered from a cache whose lastUpdate is
\* still null.
C12_AsStated ==
    /\ (res # Null /\ res.route \in {"/api/dashboard", "/api/crypto/prices"}) => ~Booting
    /\ DashboardSent =>
           /\ res.body.prices.lastUpdate # Null
           /\ res.body.news.lastUpdate # Null
           /\ res.body.crypto.lastUpdate # Null
    /\ (res # Null /\ res.route = "/api/crypto/prices") => cryptoCache.lastUpdate # Null

\* C13: a fetchTopCryptos call that fails (non-success status, thrown
\* exception, or a payload that cannot be mapped) leaves cryptoCache.top10,
\* cryptoCache.prices and cryptoCache.lastUpdate exactly as they were before
\* the call.
C13_FailureKeepsCryptoCache ==
    (res # Null /\ res.route = "fetchTopCryptos" /\ res.handler.outcome.t # "ok") =>
        /\ cryptoCache.top10 = res.handler.before.top10
        /\ cryptoCache.prices = res.handler.before.prices
        /\ cryptoCache.lastUpdate = res.handler.before.lastUpdate
        /\ res.body = Null

\* a populated crypto cache survives an unmappable payload met later on
C13_Witness ==
    /\ res # Null
    /\ res.route = "fetchTopCryptos"
    /\ res.handler.outcome.t = "unmappable"
    /\ res.handler.before.lastUpdate = toISOString(0)
    /\ now > 0
    /\ Len(cryptoCache.top10) = 2
    /\ cryptoCache = res.handler.before

\* the quote pairs one fetch cycle can produce, whichever tier answered
CyclePairs ==
    {fetchGoldApiPrices(o) : o \in GoldApiPayloads}
    \cup {fetchFreePrices(o, r1, r2, r3, r4) :
            o \in RateOutcomes, r1 \in RandomDraws, r2 \in RandomDraws,
            r3 \in RandomDraws, r4 \in RandomDraws}

Last(seq) == seq[Len(seq)]

\* the history and the cache agree on the last completed fetch cycle
CycleConsistent ==
    IF priceCache.lastUpdate = Null
    THEN /\ priceCache.gold = Null
         /\ priceCache.silver = Null
         /\ \A m \in Metals : priceHistory[m] = <<>>
    ELSE /\ [gold |-> priceCache.gold, silver |-> priceCache.silver] \in CyclePairs
         /\ \A m \in Metals :
                /\ Len(priceHistory[m]) >= 1
                /\ Last(priceHistory[m]).price = priceCache[m].price
                /\ Last(priceHistory[m]).timestamp = getTime(priceCache.lastUpdate)
         /\ Len(priceHistory.gold) = Len(priceHistory.silver)
         /\ \A i \in 1..Len(priceHistory.gold) :
                priceHistory.gold[i].timestamp = priceHistory.silver[i].timestamp

\* C14: each completed fetchPrices, whichever tier produced the quote, appends
\* exactly one sample to priceHistory.gold and one to priceHistory.silver
\* with the same timestamp and replaces priceCache.gold, priceCache.silver
\* and priceCache.lastUpdate together in one step; no state shows the new
\* sample with the old quote, or a gold and a silver quote of different
\* fetch cycles.
C14_AtomicStore ==
    /\ [](CycleConsistent)
    /\ [][(priceHistory' # priceHistory \/ priceCache' # priceCache) =>
            /\ priceCache'.lastUpdate = toISOString(now)
            /\ \A m \in Metals :
                   /\ Last(priceHistory'[m]) =
                        [price |-> priceCache'[m].price, timestamp |-> now]
                   /\ Len(priceHistory'[m]) =
                        1 + Cardinality({i \in 1..Len(priceHistory[m]) :
                                           priceHistory[m][i].timestamp > now - WEEK})]_vars

\* the static last-resort quote stored over a goldapi.io quote of an earlier
\* cycle, for both metals at once
C14_Witness ==
    /\ Len(priceHistory.gold) = 2
    /\ priceHistory.gold[1].price = Num(250000)
    /\ priceHistory.silver[1].price = Num(2900)
    /\ priceCache.gold = StaticPrices.gold
    /\ priceCache.silver = StaticPrices.silver
    /\ priceHistory.gold[2].timestamp = getTime(priceCache.lastUpdate)
    /\ priceHistory.silver[2].timestamp = getTime(priceCache.lastUpdate)

\* the refresh handlers this step starts, advances or ends
RefreshMoves ==
    {t \in BagToSet(tasks) \cup BagToSet(tasks') :
        t.kind = "refresh" /\ CopiesIn(t, tasks') # CopiesIn(t, tasks)}

\* C15: POST /api/refresh runs fetchPrices and fetchNews unconditionally,
\* whatever the cache age, sends { ok: true } only after both have completed,
\* and never starts a crypto fetch: cryptoCache is unchanged by the request.
C15_RefreshAwaitsBoth ==
    /\ []((res # Null /\ res.route = "/api/refresh") =>
            /\ res.status = 200
            /\ res.body = [ok |-> TRUE]
            /\ res.handler.prices = "done"
            /\ res.handler.news = "done"
            /\ res.handler.crypto = "none")
    /\ [](\A t \in Running :
            t.kind = "refresh" =>
                /\ t.prices # "none"
                /\ t.news # "none"
                /\ t.crypto = "none")
    /\ [][RefreshMoves # {} => cryptoCache' = cryptoCache]_vars
    /\ [][(res' # Null /\ res'.route = "/api/refresh") =>
            \E t \in BagToSet(tasks) : t.kind = "refresh" /\ t \in RefreshMoves]_vars

\* { ok: true } sent after a refresh that found the price cache 0 ms old and
\* fetched all the same
C15_Witness ==
    /\ res # Null
    /\ res.route = "/api/refresh"
    /\ res.handler.prices = "done"
    /\ res.handler.news = "done"
    /\ Len(priceHistory.gold) = 2
    /\ priceHistory.gold[1].timestamp = priceHistory.gold[2].timestamp
    /\ newsCache.lastUpdate # Null

\* a query outcome that leaves its instrument without articles
NoArticles == {"zero", "notOk", "badBody", "throw"}

\* C16 (as stated): in fetchNews the two instruments fall back independently:
\* an instrument's news is the fixed 3-item placeholder list if and only if
\* the credential is absent or that instrument's own query failed or
\* returned zero articles; a failure of the gold query never replaces
\* silver's fetched articles by placeholders, and vice versa.
C16_AsStated ==
    (res # Null /\ res.route = "fetchNews") =>
        /\ (res.body.gold = Placeholders) <=>
               (~res.handler.key \/ res.handler.gold \in NoArticles)
        /\ (res.body.silver = Placeholders) <=>
               (~res.handler.key \/ res.handler.silver \in NoArticles)
        /\ newsCache.gold = res.body.gold
        /\ newsCache.silver = res.body.silver

\* the ids of a GET /api/crypto/prices as the client gave them: none when the
\* parameter is absent or empty
GivenIds(ids) == {ids[i] : i \in 1..Len(ids)} \ {""}

\* C17 (as stated): GET /api/crypto/prices returns exactly the entries of
\* cryptoCache.prices whose id is among the requested ids (unknown ids are
\* omitted), returns the full mapping when no ids are given (the parameter
\* absent or empty), and in all cases starts no upstream fetch and leaves
\* every cache unchanged.
C17_AsStated ==
    [][(res' # Null /\ res'.route = "/api/crypto/prices") =>
         /\ res'.status = 200
         /\ res'.body.prices =
              IF GivenIds(res'.handler.ids) = {}
              THEN cryptoCache.prices
              ELSE {p \in cryptoCache.prices : p.id \in GivenIds(res'.handler.ids)}
         /\ UNCHANGED <<priceCache, newsCache, cryptoCache, priceHistory, tasks>>]_vars

\* this step is a call of calculateAdvice
AdviceCalled == res' # Null /\ res'.route = "calculateAdvice"

MomentumLines ==
    {"24h: (potential buy opportunity)", "24h: (consider taking profits)",
     "24h: (stable)"}
WeeklyLines ==
    {"Week trend: (accumulation zone)", "Week trend: (extended rally)",
     "Week trend: (consolidating)"}
SafeHaven == "Global uncertainty: Precious metals as safe haven"

\* C19 (as the code has it): with sufficient data and a changePercent24h that
\* is a number or null, the reasons list is: one 24h-momentum line unless
\* changePercent24h is null (then there is none), then exactly one
\* weekly-trend line, then for silver with a gold quote of non-zero numeric
\* price exactly one Au/Ag-ratio line, then the constant safe-haven line
\* last.
C19_ReasonsShape ==
    \A m \in Metals :
        (AdviceReturned(m) /\ Sufficient(m)) =>
            LET r == res.body.reasons
                momentum == IF priceCache[m].changePercent24h = Null THEN 0 ELSE 1
                ratio == IF m = "silver" /\ IsNum(priceCache.gold.price)
                            /\ priceCache.gold.price.v # 0
                         THEN 1 ELSE 0
            IN  /\ Len(r) = momentum + 1 + ratio + 1
                /\ momentum = 1 => r[1] \in MomentumLines
                /\ r[momentum + 1] \in WeeklyLines
                /\ ratio = 1 => r[momentum + 2] \in AuAgReasons
                /\ r[Len(r)] = SafeHaven

\* gold advised on a quote whose changePercent24h is null: no 24h line
C19_Witness ==
    /\ AdviceReturned("gold")
    /\ Sufficient("gold")
    /\ priceCache.gold.changePercent24h = Null
    /\ Len(res.body.reasons) = 2
    /\ res.body.reasons[1] \in WeeklyLines

\* C19 (as stated): with sufficient data the reasons list is exactly one
\* 24h-momentum line, then exactly one weekly-trend line, then for silver
\* with a gold quote present exactly one Au/Ag-ratio line, then the
\* safe-haven line last, also for a quote whose changePercent24h is null,
\* which yields the neutral 24h line.
C19_AsStated ==
    \A m \in Metals :
        (AdviceReturned(m) /\ Sufficient(m)) =>
            LET r == res.body.reasons
                ratio == IF m = "silver" /\ priceCache.gold # Null THEN 1 ELSE 0
            IN  /\ Len(r) = 3 + ratio
                /\ r[1] \in MomentumLines
                /\ r[2] \in WeeklyLines
                /\ ratio = 1 => r[3] \in AuAgReasons
                /\ r[Len(r)] = SafeHaven
                /\ priceCache[m].changePercent24h = Null => r[1] = "24h: (stable)"

\* the fetchPrices calls in flight in a bag of invocations
PendingPrices(bag) ==
    BagCardinality([t \in {u \in DOMAIN bag : u.prices \in {"primary", "free"}} |-> bag[t]])

\* C20: stale-triggered refreshes are not deduplicated and never cancelled:
\* every dashboard request that observes a stale price cache starts its own
\* fetchPrices, also while others are in flight; each call in flight runs to
\* completion, and its completion adds one sample per instrument (before
\* pruning) and overwrites priceCache, in completion order.
C20_NoDeduplication ==
    /\ [][\A h \in Arriving :
            ~PriceFresh => PendingPrices(tasks') = PendingPrices(tasks) + 1]_vars
    /\ [][PendingPrices(tasks') < PendingPrices(tasks) =>
            /\ PendingPrices(tasks') = PendingPrices(tasks) - 1
            /\ priceCache'.lastUpdate = toISOString(now)
            /\ \A m \in Metals :
                   /\ Len(priceHistory'[m]) =
                        1 + Cardinality({i \in 1..Len(priceHistory[m]) :
                                           priceHistory[m][i].timestamp > now - WEEK})
                   /\ Last(priceHistory'[m]).timestamp = now
                   /\ priceCache'[m].price = Last(priceHistory'[m]).price]_vars
    /\ [][PendingPrices(tasks') >= PendingPrices(tasks) =>
            (priceHistory' = priceHistory /\ priceCache' = priceCache)]_vars

\* two dashboard requests found the cache stale; both fetchPrices calls have
\* completed and the history has gained two samples
C20_Witness ==
    /\ Len(priceHistory.gold) = 3
    /\ Len(priceHistory.silver) = 3
    /\ priceHistory.gold[1].timestamp = 0
    /\ priceHistory.gold[2].timestamp = StaleAt
    /\ priceHistory.gold[3].timestamp = StaleAt
    /\ requests = 1
    /\ \A t \in Running : t.kind = "dashboard" /\ t.prices = "done"
                          /\ t.cacheAge = Num(StaleAt)
    /\ BagCardinality(tasks) = 2

\* what a fetchPrices call returned, and the tier that produced it
PricesFetched == res # Null /\ res.route = "fetchPrices"
UsesPrimary == res.handler.key /\ res.handler.primary \in GoldApiPayloads
\* a quote of the secondary tier: about 2650 USD and 31 USD with a jitter of
\* at most 10 and 0.25, converted at the given rate (in hundredths)
Synthesized(body, rate) ==
    /\ IsNum(body.gold.price)
    /\ body.gold.price.v >= (264000 * rate) \div 100
    /\ body.gold.price.v <= (266000 * rate) \div 100
    /\ IsNum(body.silver.price)
    /\ body.silver.price.v >= (3075 * rate) \div 100
    /\ body.silver.price.v <= (3125 * rate) \div 100
\* the static quote: gold 2450, silver 28.5
Static(body) ==
    body.gold.price = Num(245000) /\ body.silver.price = Num(2850)

C22_CacheMatchesHistory ==
    /\ [](\A m \in Metals :
            /\ priceCache[m] = Null <=> Len(priceHistory[m]) = 0
            /\ Len(priceHistory[m]) > 0 =>
                  /\ priceCache.lastUpdate # Null
                  /\ priceCache[m].price = Last(priceHistory[m]).price
                  /\ Last(priceHistory[m]).timestamp <= getTime(priceCache.lastUpdate))
    /\ [][\A m \in Metals :
            Len(priceHistory[m]) > 0 => Len(priceHistory'[m]) > 0]_vars

\* a dashboard handler found the cache at least a week old and refreshed it:
\* the sample of the start-up fetch was pruned, the one just appended stayed
C22_Witness ==
    /\ DashboardSent
    /\ res.handler.prices = "done"
    /\ IsNum(res.handler.cacheAge)
    /\ res.handler.cacheAge.v >= WEEK
    /\ \A m \in Metals :
          /\ Len(priceHistory[m]) = 1
          /\ priceHistory[m][1].timestamp = now
          /\ priceCache[m].price = priceHistory[m][1].price
    /\ priceCache.lastUpdate = toISOString(now)

\* the scores rules 1-3 can add up to, per instrument
ScoreRange(metal) == IF metal = "gold" THEN -2..4 ELSE -3..5

\* C23: for every reachable cache and history state, the score computed by
\* calculateAdvice lies in -2..4 for gold and -3..5 for silver, and the
\* returned confidence is one of 50, 60, 70, 80: 50 only in the
\* insufficient-data case, 60 only with HOLD, and a gold SELL, which requires
\* both changePercent24h > 2 and weeklyChange > 5, has confidence exactly 70.
C23_ScoreAndConfidenceRange ==
    \A m \in Metals :
        AdviceReturned(m) =>
            /\ res.body.confidence \in {50, 60, 70, 80}
            /\ res.body.confidence = 50 <=> ~Sufficient(m)
            /\ res.body.confidence = 60 => res.body.advice = "HOLD"
            /\ Sufficient(m) => scoring(m).score \in ScoreRange(m)
            /\ (m = "gold" /\ res.body.advice = "SELL") =>
                  /\ res.body.confidence = 70
                  /\ IsNum(priceCache.gold.changePercent24h)
                  /\ priceCache.gold.changePercent24h.v > 2 * PCT
                  /\ Greater(weeklyChange(priceHistory.gold), 5)

\* gold advised SELL at its lowest score, -2
C23_Witness ==
    /\ AdviceReturned("gold")
    /\ Sufficient("gold")
    /\ scoring("gold").score = -2
    /\ res.body.advice = "SELL"
    /\ res.body.confidence = 70

\* the id-keyed mapping and the cache one upstream answer produces
PricesOf(coins) ==
    {[id |-> coins[i].id, price |-> coins[i].price] : i \in 1..Len(coins)}
AnswerStored(coins, at) ==
    [top10 |-> coins, prices |-> PricesOf(coins), lastUpdate |-> toISOString(at)]
\* top10, prices and lastUpdate as a handler reads them: untouched since the
\* start, or all three from one answer
FromOneAnswer(crypto) ==
    /\ {p.id : p \in crypto.prices} = {crypto.top10[i].id : i \in 1..Len(crypto.top10)}
    /\ \/ crypto = [top10 |-> <<>>, prices |-> {}, lastUpdate |-> Null]
       \/ /\ crypto.lastUpdate # Null
          /\ \E coins \in CoinLists :
                crypto = AnswerStored(coins, getTime(crypto.lastUpdate))

\* C24: in every state a request handler can observe, including while
\* several fetchTopCryptos calls are in flight, the key set of
\* cryptoCache.prices equals the set of ids in cryptoCache.top10 and both come
\* from the same upstream answer as cryptoCache.lastUpdate: the three change
\* together in one step, and a dashboard response never carries top10 from
\* one fetch together with prices from another.
C24_CryptoCacheOfOneAnswer ==
    /\ [](FromOneAnswer(cryptoCache))
    /\ [](DashboardSent =>
            /\ FromOneAnswer(res.body.crypto)
            /\ res.body.crypto = cryptoCache)
    /\ [][cryptoCache' # cryptoCache =>
            \E coins \in CoinLists : cryptoCache' = AnswerStored(coins, now)]_vars

\* a dashboard handler's fetchTopCryptos call was answered and the handler
\* responded while the call of the start-up callback is still in flight
C24_Witness ==
    /\ DashboardSent
    /\ res.handler.crypto = "done"
    /\ \E t \in Running : t.kind = "listen" /\ t.crypto = "fetching"
    /\ Len(res.body.crypto.top10) = 2
    /\ res.body.crypto.prices = PricesOf(res.body.crypto.top10)

====
